---------------------------- MODULE Spec2Model ----------------------------
(***************************************************************************)
(* A model of M3U8Parser (fbritoferreira/m3u8-parser, parser.ts).          *)
(*                                                                         *)
(* A JavaScript string is a sequence of one-character strings, so that     *)
(* trim, startsWith, split, toLowerCase and the regular expressions of the *)
(* parser are computed character by character.  A Map is the sequence of   *)
(* its [k, v] pairs in insertion order, a Set the sequence of its members  *)
(* in insertion order.                                                     *)
(***************************************************************************)
EXTENDS Integers, Sequences, FiniteSets, TLC

(***************************************************************************)
(* Characters and the String methods the parser calls.                     *)
(***************************************************************************)
UpperChars == <<"A","B","C","D","E","F","G","H","I","J","K","L","M",
                "N","O","P","Q","R","S","T","U","V","W","X","Y","Z">>

LowerChars == <<"a","b","c","d","e","f","g","h","i","j","k","l","m",
                "n","o","p","q","r","s","t","u","v","w","x","y","z">>

DigitChars == {"0","1","2","3","4","5","6","7","8","9"}

OtherChars == {"#", ":", "-", "=", "\"", ",", "|", "&", "/", ".", "_", "?",
               " ", "\t", "\r", "\n"}

Range(s) == {s[k] : k \in DOMAIN s}

Char == Range(UpperChars) \cup Range(LowerChars) \cup DigitChars \cup OtherChars

\* The value JavaScript calls undefined, and a value that is not a string
\* (a number where a string is expected); neither is a sequence of Char.
undefined == <<"undefined">>

NotAString == <<"number">>

IsString(v) == \A k \in DOMAIN v : v[k] \in Char

\* White space String.prototype.trim removes, and the line terminators the
\* regular expression "." does not match.
WhiteSpace == {" ", "\t", "\r", "\n"}

LineTerminator == {"\r", "\n"}

\* The word characters of the regular expression \w.
WordChar == Range(UpperChars) \cup Range(LowerChars) \cup DigitChars \cup {"_"}

LowerMap == [c \in Range(UpperChars) |->
               LowerChars[CHOOSE k \in DOMAIN UpperChars : UpperChars[k] = c]]

toLowerCase(s) == [k \in DOMAIN s |->
                     IF s[k] \in DOMAIN LowerMap THEN LowerMap[s[k]] ELSE s[k]]

startsWith(s, p) == Len(p) <= Len(s) /\ SubSeq(s, 1, Len(p)) = p

Drop(s, n) == SubSeq(s, n + 1, Len(s))

\* The number of leading (trailing) white-space characters of s.
RECURSIVE LeadingWs(_)
LeadingWs(s) == IF s # <<>> /\ Head(s) \in WhiteSpace
                THEN 1 + LeadingWs(Tail(s)) ELSE 0

RECURSIVE TrailingWs(_)
TrailingWs(s) == IF s # <<>> /\ s[Len(s)] \in WhiteSpace
                 THEN 1 + TrailingWs(SubSeq(s, 1, Len(s) - 1)) ELSE 0

trim(s) == LET a == LeadingWs(s)
           IN  IF a = Len(s) THEN <<>>
               ELSE SubSeq(s, a + 1, Len(s) - TrailingWs(s))

\* The least index k >= from with s[k] \in cs, or 0 when there is none.
RECURSIVE IndexOfAny(_, _, _)
IndexOfAny(s, cs, from) ==
  IF from > Len(s) THEN 0
  ELSE IF s[from] \in cs THEN from
  ELSE IndexOfAny(s, cs, from + 1)

\* The least index k >= from at which p occurs in s, or 0.
RECURSIVE IndexOf(_, _, _)
IndexOf(s, p, from) ==
  IF from + Len(p) - 1 > Len(s) THEN 0
  ELSE IF SubSeq(s, from, from + Len(p) - 1) = p THEN from
  ELSE IndexOf(s, p, from + 1)

\* The places of s that hold c, in increasing order.
RECURSIVE Ascending(_)
Ascending(ks) ==
  IF ks = {} THEN <<>>
  ELSE LET least == CHOOSE k \in ks : \A j \in ks : k <= j
       IN  <<least>> \o Ascending(ks \ {least})

Places(s, c) == Ascending({k \in DOMAIN s : s[k] = c})

\* s.split(c) for a one-character separator c: the pieces between the places
\* of c.
split(s, c) ==
  LET at == <<0>> \o Places(s, c) \o <<Len(s) + 1>>
  IN  [n \in 1..(Len(at) - 1) |-> SubSeq(s, at[n] + 1, at[n + 1] - 1)]

\* parts.join(sep)
RECURSIVE join(_, _)
join(parts, sep) ==
  IF parts = <<>> THEN <<>>
  ELSE IF Len(parts) = 1 THEN parts[1]
  ELSE parts[1] \o sep \o join(Tail(parts), sep)

\* s.replace(/\"/g, "")
RECURSIVE StripQuotes(_)
StripQuotes(s) ==
  IF s = <<>> THEN <<>>
  ELSE IF Head(s) = "\"" THEN StripQuotes(Tail(s))
  ELSE <<Head(s)>> \o StripQuotes(Tail(s))

(***************************************************************************)
(* types.ts: the enums, and PlaylistItemValidator.                         *)
(***************************************************************************)
TVG_ID == <<"t","v","g","-","i","d">>

X_TVG_URL == <<"x","-","t","v","g","-","u","r","l">>

URL_TVG == <<"u","r","l","-","t","v","g">>

TVG_NAME == <<"t","v","g","-","n","a","m","e">>

TVG_LOGO == <<"t","v","g","-","l","o","g","o">>

TVG_URL == <<"t","v","g","-","u","r","l">>

TVG_REC == <<"t","v","g","-","r","e","c">>

GROUP_TITLE == <<"g","r","o","u","p","-","t","i","t","l","e">>

USER_AGENT == <<"u","s","e","r","-","a","g","e","n","t">>

CATCHUP == <<"c","a","t","c","h","u","p">>

CATCHUP_DAYS == <<"c","a","t","c","h","u","p","-","d","a","y","s">>

CATCHUP_SOURCE == <<"c","a","t","c","h","u","p","-","s","o","u","r","c","e">>

TIMESHIFT == <<"t","i","m","e","s","h","i","f","t">>

HTTP_REFERRER == <<"h","t","t","p","-","r","e","f","e","r","r","e","r">>

HTTP_USER_AGENT == <<"h","t","t","p","-","u","s","e","r","-","a","g","e","n","t">>

REFERER == <<"r","e","f","e","r","e","r">>

\* The markers parse tests its lines against.
EXTM3U == <<"#","E","X","T","M","3","U">>

EXTINF == <<"#","E","X","T","I","N","F",":">>

EXTVLCOPT == <<"#","E","X","T","V","L","C","O","P","T",":">>

EXTGRP == <<"#","E","X","T","G","R","P",":">>

\* z.string() and z.string().optional()
zString(v) == IsString(v)

zOptionalString(v) == v = undefined \/ IsString(v)

\* PlaylistItemValidator.parse(x) succeeds: every field has its type.
\* (index is z.number(); the model keeps it an integer everywhere.)
ValidatorAccepts(x) ==
  /\ zString(x.name)
  /\ x.index \in Int
  /\ zString(x.tvg.id) /\ zString(x.tvg.name) /\ zString(x.tvg.url)
  /\ zString(x.tvg.logo) /\ zString(x.tvg.rec)
  /\ zString(x.group.title)
  /\ zString(x.http.referrer) /\ zString(x.http.userAgent)
  /\ zOptionalString(x.url)
  /\ zString(x.raw)
  /\ zString(x.timeshift)
  /\ zString(x.catchup.type) /\ zString(x.catchup.source)
  /\ zString(x.catchup.days)

\* What PlaylistItemValidator.parse(x) returns for an accepted x: a z.object
\* keeps the keys of its shape and strips every other key.  The record field
\* userAgent is the key "user-agent"; user_agent is the key user_agent, which
\* the shape does not have.
ValidatorParse(x) ==
  [name |-> x.name, index |-> x.index, tvg |-> x.tvg, group |-> x.group,
   http |-> [referrer |-> x.http.referrer, userAgent |-> x.http.userAgent],
   url |-> x.url, raw |-> x.raw, timeshift |-> x.timeshift,
   catchup |-> x.catchup]

(***************************************************************************)
(* The inputs: the lines playlist texts are made of.                       *)
(***************************************************************************)
\* #EXTINF:-1 tvg-id="ABC" group-title="News",N
LineNews == <<"#","E","X","T","I","N","F",":","-","1"," ","t","v","g","-","i","d","=","\"","A","B","C","\""," ","g","r","o","u","p","-","t","i","t","l","e","=","\"","N","e","w","s","\"",",","N">>

\* #EXTINF:-1 group-title="Sports" user-agent="m",S
LineSports == <<"#","E","X","T","I","N","F",":","-","1"," ","g","r","o","u","p","-","t","i","t","l","e","=","\"","S","p","o","r","t","s","\""," ","u","s","e","r","-","a","g","e","n","t","=","\"","m","\"",",","S">>

\* http://a
LineUrl == <<"h","t","t","p",":","/","/","a">>

\* http://b|user-agent=x&referer=y followed by a carriage return
LineUrlParams == <<"h","t","t","p",":","/","/","b","|","u","s","e","r","-","a","g","e","n","t","=","x","&","r","e","f","e","r","e","r","=","y","\r">>

\* #EXTVLCOPT:http-referrer=r
LineOptReferrer == <<"#","E","X","T","V","L","C","O","P","T",":","h","t","t","p","-","r","e","f","e","r","r","e","r","=","r">>

\* #EXTVLCOPT:http-user-agent=v
LineOptUserAgent == <<"#","E","X","T","V","L","C","O","P","T",":","h","t","t","p","-","u","s","e","r","-","a","g","e","n","t","=","v">>

\* #EXTGRP:Sp
LineGrp == <<"#","E","X","T","G","R","P",":","S","p">>

\* #EXTGRP: followed by a carriage return
LineGrpEmpty == <<"#","E","X","T","G","R","P",":","\r">>

LineBlank == <<>>

LinePool == {LineNews, LineSports, LineUrl, LineUrlParams, LineOptReferrer,
             LineOptUserAgent, LineGrp, LineGrpEmpty, LineBlank}

\* #EXTM3U x-tvg-url="e"
HeaderEpg == <<"#","E","X","T","M","3","U"," ","x","-","t","v","g","-","u","r","l","=","\"","e","\"">>

\* The header marker after a space: not a header for /^#EXTM3U/.
HeaderIndented == <<" ","#","E","X","T","M","3","U">>

HeaderPool == {EXTM3U, HeaderEpg, HeaderIndented, LineNews}

InputLines == LinePool \cup HeaderPool

(***************************************************************************)
(* parser.ts: the extractors.                                              *)
(***************************************************************************)
\* new RegExp(name + '="(.*?)"', "gi").exec(line): the leftmost place where
\* name="  occurs, letters compared without case, and is followed by a closing
\* quote with no line terminator before it; the group is the text up to the
\* first closing quote.  <<>> stands for a failed match or an empty group,
\* which getAttribute does not tell apart.
RECURSIVE AttributeMatch(_, _, _)
AttributeMatch(name, line, from) ==
  LET pat   == toLowerCase(name) \o <<"=", "\"">>
      start == IndexOf(toLowerCase(line), pat, from)
      first == start + Len(pat)
      stop  == IndexOfAny(line, {"\""} \cup LineTerminator, first)
  IN  IF start = 0 THEN <<>>
      ELSE IF stop # 0 /\ line[stop] = "\"" THEN SubSeq(line, first, stop - 1)
      ELSE AttributeMatch(name, line, start + 1)

getAttributeExec(name, line) == trim(AttributeMatch(name, line, 1))

\* line.split(/[\r\n]+/).shift(): the text before the first line terminator.
FirstPhysicalLine(line) ==
  LET k == IndexOfAny(line, LineTerminator, 1)
  IN  IF k = 0 THEN line ELSE SubSeq(line, 1, k - 1)

getNameExec(line) ==
  LET parts == split(FirstPhysicalLine(line), ",")
  IN  trim(parts[Len(parts)])

\* The group of /(.*)/ from index first on: up to the next line terminator.
DotStar(line, first) ==
  LET stop == IndexOfAny(line, LineTerminator, first)
  IN  IF stop = 0 THEN SubSeq(line, first, Len(line))
      ELSE SubSeq(line, first, stop - 1)

\* new RegExp(":" + name + "=(.*)", "gi"); returns "" and never null.
getOptionExec(line, name) ==
  LET pat   == <<":">> \o toLowerCase(name) \o <<"=">>
      start == IndexOf(toLowerCase(line), pat, 1)
  IN  IF start = 0 THEN <<>>
      ELSE StripQuotes(DotStar(line, start + Len(pat)))

\* new RegExp(":(.*)", "gi"); returns "" and never null.
getValueExec(line) ==
  LET start == IndexOfAny(line, {":"}, 1)
  IN  IF start = 0 THEN <<>>
      ELSE StripQuotes(DotStar(line, start + 1))

getUrlExec(line) == split(line, "|")[1]

\* line.replace(/^(.*)\|/, ""): the greedy group ends at the last pipe that has
\* no line terminator before it; without one the line is returned whole.
RECURSIVE LastPipe(_, _)
LastPipe(line, k) ==
  IF k = 0 THEN 0
  ELSE IF line[k] = "|" /\ IndexOfAny(SubSeq(line, 1, k - 1), LineTerminator, 1) = 0
       THEN k
  ELSE LastPipe(line, k - 1)

\* The group of /name=(\w[^&]*)/gi in params, searched from index from on.
RECURSIVE ParameterMatch(_, _, _)
ParameterMatch(name, params, from) ==
  LET pat   == toLowerCase(name) \o <<"=">>
      start == IndexOf(toLowerCase(params), pat, from)
      first == start + Len(pat)
      stop  == IndexOfAny(params, {"&"}, first)
  IN  IF start = 0 THEN <<>>
      ELSE IF first <= Len(params) /\ params[first] \in WordChar
           THEN IF stop = 0 THEN SubSeq(params, first, Len(params))
                ELSE SubSeq(params, first, stop - 1)
      ELSE ParameterMatch(name, params, start + 1)

getParameterExec(line, name) ==
  ParameterMatch(name, Drop(line, LastPipe(line, Len(line))), 1)

(***************************************************************************)
(* The extractors as the parser calls them.  What each returns for a line  *)
(* of the inputs, and for such a line trimmed, is tabulated (a constant is *)
(* evaluated once); for any other line it is computed on the spot.         *)
(***************************************************************************)
Tabulated == InputLines \cup {trim(l) : l \in InputLines}

Attributes == {TVG_ID, X_TVG_URL, URL_TVG, TVG_NAME, TVG_LOGO, TVG_URL, TVG_REC,
               GROUP_TITLE, USER_AGENT, CATCHUP, CATCHUP_DAYS, CATCHUP_SOURCE,
               TIMESHIFT}

Options == {HTTP_REFERRER, HTTP_USER_AGENT}

Parameters == {USER_AGENT, REFERER}

AttributeTable == [l \in Tabulated |-> [n \in Attributes |-> getAttributeExec(n, l)]]

NameTable == [l \in Tabulated |-> getNameExec(l)]

OptionTable == [l \in Tabulated |-> [n \in Options |-> getOptionExec(l, n)]]

ValueTable == [l \in Tabulated |-> getValueExec(l)]

UrlTable == [l \in Tabulated |-> getUrlExec(l)]

ParameterTable == [l \in Tabulated |-> [n \in Parameters |-> getParameterExec(l, n)]]

getAttribute(name, line) ==
  IF line \in Tabulated THEN AttributeTable[line][name]
  ELSE getAttributeExec(name, line)

getName(line) ==
  IF line \in Tabulated THEN NameTable[line] ELSE getNameExec(line)

getOption(line, name) ==
  IF line \in Tabulated THEN OptionTable[line][name]
  ELSE getOptionExec(line, name)

getValue(line) ==
  IF line \in Tabulated THEN ValueTable[line] ELSE getValueExec(line)

getUrl(line) ==
  IF line \in Tabulated THEN UrlTable[line] ELSE getUrlExec(line)

getParameter(line, name) ==
  IF line \in Tabulated THEN ParameterTable[line][name]
  ELSE getParameterExec(line, name)

\* a ?? b
NullishCoalescing(a, b) == IF a = undefined THEN b ELSE a

(***************************************************************************)
(* Map<number, PlaylistItem> and Set<string>, in insertion order.          *)
(***************************************************************************)
MapKeys(m) == {m[n].k : n \in DOMAIN m}

MapHas(m, key) == key \in MapKeys(m)

MapGet(m, key) == m[CHOOSE n \in DOMAIN m : m[n].k = key].v

\* A set that moves a key already present to the end: delete, then set.
MapSetMoveToEnd(m, key, val) ==
  Append(SelectSeq(m, LAMBDA e : e.k # key), [k |-> key, v |-> val])

\* Map.prototype.set: a key already present keeps its place.
MapSet(m, key, val) ==
  IF MapHas(m, key)
  THEN [n \in DOMAIN m |-> IF m[n].k = key THEN [k |-> key, v |-> val] ELSE m[n]]
  ELSE Append(m, [k |-> key, v |-> val])

\* Array.from(m.values())
MapValues(m) == [n \in DOMAIN m |-> m[n].v]

\* Set.prototype.add
SetAdd(s, x) == IF x \in Range(s) THEN s ELSE Append(s, x)

(***************************************************************************)
(* parser.ts: the handlers of parse.                                       *)
(***************************************************************************)
\* parseLine(line, index)
parseLine(line, index) == [index |-> index, raw |-> line]

\* raw.split("\n").map(this.parseLine); lines[n] has index n - 1.
ParsedLines(raw) ==
  LET ls == split(raw, "\n")
  IN  [n \in DOMAIN ls |-> parseLine(ls[n], n - 1)]

\* !/^#EXTM3U/.test(firstLine.raw), on the line as it is (not trimmed).
ValidHeader(lines) == startsWith(lines[1].raw, EXTM3U)

\* parseHeader(line): attrs holds each supported attribute that has a
\* non-empty value.
parseHeader(line) ==
  [attrs |-> [a \in {n \in {X_TVG_URL, URL_TVG} : getAttribute(n, line) # <<>>}
                |-> getAttribute(a, line)],
   raw   |-> line]

\* A merge that leaves out the newline between the raw and the line.
mergeRawWithoutNewline(item, line) ==
  IF item.raw # <<>> THEN item.raw \o line ELSE line

\* mergeRaw(item, line), line a string or a ParsedLine's raw.
mergeRaw(item, line) ==
  IF item.raw # <<>> THEN item.raw \o <<"\n">> \o line ELSE line

\* handleEXTINF(line); its object always passes the validator.
handleEXTINF(line) ==
  ValidatorParse(
    [name  |-> getName(line.raw),
     tvg   |-> [id   |-> getAttribute(TVG_ID, line.raw),
                name |-> getAttribute(TVG_NAME, line.raw),
                logo |-> getAttribute(TVG_LOGO, line.raw),
                url  |-> getAttribute(TVG_URL, line.raw),
                rec  |-> getAttribute(TVG_REC, line.raw)],
     group |-> [title |-> getAttribute(GROUP_TITLE, line.raw)],
     http  |-> [referrer  |-> <<>>,
                userAgent |-> getAttribute(USER_AGENT, line.raw)],
     url   |-> undefined,
     raw   |-> line.raw,
     index |-> line.index + 1,
     catchup |-> [type   |-> getAttribute(CATCHUP, line.raw),
                  days   |-> getAttribute(CATCHUP_DAYS, line.raw),
                  source |-> getAttribute(CATCHUP_SOURCE, line.raw)],
     timeshift |-> getAttribute(TIMESHIFT, line.raw)])

\* The object handleEXTVLCOPT(line, index) hands to the validator.
handleEXTVLCOPT(item, line) ==
  [item EXCEPT
     !.http = [referrer  |-> NullishCoalescing(getOption(line, HTTP_REFERRER),
                                               item.http.referrer),
               userAgent |-> NullishCoalescing(getOption(line, HTTP_USER_AGENT),
                                               item.http.userAgent)],
     !.raw  = <<"\r", "\n">> \o line]

\* The object handleEXTGRP(line, index) hands to the validator.
handleEXTGRP(item, line) ==
  [item EXCEPT
     !.group = [title |-> NullishCoalescing(getValue(line), item.group.title)],
     !.raw   = mergeRaw(item, line)]

\* The object parse hands to the validator for a line with a URL (lines
\* 79-88): the spread of item.http keeps "user-agent", and the parameters are
\* stored under the keys user_agent and referrer.
WithUrl(item, line, string) ==
  [item EXCEPT
     !.url  = getUrl(string),
     !.http = [referrer   |-> getParameter(string, REFERER),
               userAgent  |-> item.http.userAgent,
               user_agent |-> getParameter(string, USER_AGENT)],
     !.raw  = mergeRaw(item, line.raw)]

\* The object parse hands to the validator for a line without a URL (lines
\* 94-97).
WithoutUrl(item, line) == [item EXCEPT !.raw = mergeRaw(item, line.raw)]

\* A store that advances the cursor whatever line was applied: i++ after the
\* test of the URL instead of inside it.
StoreAndAdvance(st, x, advance) ==
  IF ValidatorAccepts(x)
  THEN [st EXCEPT !.items = MapSet(st.items, st.i, ValidatorParse(x)),
                  !.i = st.i + 1]
  ELSE [st EXCEPT !.err = "ValidationFailure"]

\* Storing a validated object at slot st.i: PlaylistItemValidator.parse
\* throws on an object it does not accept, and the parse stops there.
Store(st, x, advance) ==
  IF ValidatorAccepts(x)
  THEN [st EXCEPT !.items = MapSet(st.items, st.i, ValidatorParse(x)),
                  !.i = IF advance THEN st.i + 1 ELSE st.i]
  ELSE [st EXCEPT !.err = "ValidationFailure"]

\* folded is a history of the parse, not a field of the parser: for each slot
\* the source lines, as they stand in the text, that were applied to the entry
\* in it.
Fold(st, slot, line, fresh) ==
  IF st.err # "none" THEN st
  ELSE [st EXCEPT !.folded =
          MapSet(st.folded, slot,
                 IF fresh \/ ~MapHas(st.folded, slot) THEN <<line.raw>>
                 ELSE Append(MapGet(st.folded, slot), line.raw))]

\* One turn of the loop of parse (lines 56-100), on st = [items, groups, i,
\* err, folded].
ParseLine(st, line) ==
  LET string == trim(line.raw)
      has    == MapHas(st.items, st.i)
      item   == MapGet(st.items, st.i)
  IN  IF line.index = 0 THEN st
      ELSE IF startsWith(string, EXTINF)
        THEN Fold([st EXCEPT !.items = MapSet(st.items, st.i, handleEXTINF(line))],
                  st.i, line, TRUE)
      ELSE IF startsWith(string, EXTVLCOPT)
        THEN IF ~has THEN st
             ELSE Fold(Store(st, handleEXTVLCOPT(item, string), FALSE),
                       st.i, line, FALSE)
      ELSE IF startsWith(string, EXTGRP)
        THEN IF ~has THEN st
             ELSE Fold(Store(st, handleEXTGRP(item, string), FALSE),
                       st.i, line, FALSE)
      ELSE IF ~has THEN st
      ELSE LET added == [st EXCEPT !.groups = SetAdd(st.groups, item.group.title)]
           IN  IF getUrl(string) # <<>>
               THEN Fold(Store(added, WithUrl(item, line, string), TRUE),
                         st.i, line, FALSE)
               ELSE Fold(Store(added, WithoutUrl(item, line), FALSE),
                         st.i, line, FALSE)

\* The state of parse after the first n lines of the text: the loop stops at
\* the first error.
RECURSIVE ParseLoop(_, _, _)
ParseLoop(st, lines, n) ==
  IF n = 0 THEN st
  ELSE LET prev == ParseLoop(st, lines, n - 1)
       IN  IF prev.err # "none" THEN prev ELSE ParseLine(prev, lines[n])

\* A parse whose cursor starts at 1: let i = 1.
ParseFromOne(its, grps, lines, n) ==
  ParseLoop([items |-> its, groups |-> grps, i |-> 1, err |-> "none",
             folded |-> <<>>],
            lines, n)

\* parse(raw) from the entries and groups the instance holds, for a text with
\* a valid header: let i = 0, then the loop.
ParseFrom(its, grps, lines, n) ==
  ParseLoop([items |-> its, groups |-> grps, i |-> 0, err |-> "none",
             folded |-> <<>>],
            lines, n)

parse(its, grps, lines) == ParseFrom(its, grps, lines, Len(lines))

(***************************************************************************)
(* The playlist texts.                                                     *)
(***************************************************************************)
\* The texts: every text of at most MaxLines lines after the header #EXTM3U,
\* every text of two entries (a metadata line, at most one line of any kind,
\* a locator line), and the other headers with at most one line after them.
MaxLines == 4

Bodies(n) == UNION {[1..k -> LinePool] : k \in 0..n}

MetadataLines == {LineNews, LineSports}

LocatorLines == {LineUrl, LineUrlParams}

EntryBodies ==
  {<<m, u>> : m \in MetadataLines, u \in LocatorLines}
    \cup {<<m, x, u>> : m \in MetadataLines, x \in LinePool, u \in LocatorLines}

TextOf(h, b) == join(<<h>> \o b, <<"\n">>)

Texts(n) == {TextOf(EXTM3U, b) : b \in Bodies(n)}
              \cup {TextOf(EXTM3U, a \o b) : a \in EntryBodies, b \in EntryBodies}
              \cup {TextOf(h, b) : h \in HeaderPool, b \in Bodies(1)}

(***************************************************************************)
(* The parser instance.                                                    *)
(***************************************************************************)
VARIABLES
  rawPlaylist,   \* this.rawPlaylist
  filteredMap,   \* this.filteredMap: cache key -> Playlist
  items,         \* this.items
  header,        \* this.header
  groups,        \* this.groups
  op,            \* history: the last operation called ("new": none yet)
  arg,           \* history: its argument
  ret,           \* history: what the last operation returned
  err,           \* history: the error the last operation threw, or "none"
  ops,           \* history: the number of operations called
  asked          \* history: <<query, argument>> -> what the query returned
                 \* the first time it was called with that argument

vars == <<rawPlaylist, filteredMap, items, header, groups,
          op, arg, ret, err, ops, asked>>

\* The field initialisers of the class (lines 27-32); header is {}.
Init ==
  /\ rawPlaylist = <<>>
  /\ filteredMap = <<>>
  /\ items = <<>>
  /\ header = [attrs |-> <<>>, raw |-> undefined]
  /\ groups = <<>>
  /\ op = "new"
  /\ arg = undefined
  /\ ret = undefined
  /\ err = "none"
  /\ ops = 0
  /\ asked = <<>>

\* A parse that empties the entries and the groups before its header test.
ParseStepClears(raw) ==
  \E lines \in {ParsedLines(raw)} :
    IF ~ValidHeader(lines)
    THEN /\ err' = "Playlist is not valid"
         /\ items' = <<>>
         /\ groups' = <<>>
         /\ UNCHANGED header
    ELSE \E st \in {parse(<<>>, <<>>, lines)} :
           /\ header' = parseHeader(lines[1].raw)
           /\ items' = st.items
           /\ groups' = st.groups
           /\ err' = st.err

\* this.parse(raw) as a step of the instance: the header test throws before
\* anything is written; after it the header is replaced and the loop writes
\* items and groups until it ends or the validator throws.
ParseStep(raw) ==
  \E lines \in {ParsedLines(raw)} :
    IF ~ValidHeader(lines)
    THEN /\ err' = "Playlist is not valid"
         /\ UNCHANGED <<items, header, groups>>
    ELSE \E st \in {parse(items, groups, lines)} :
           /\ header' = parseHeader(lines[1].raw)
           /\ items' = st.items
           /\ groups' = st.groups
           /\ err' = st.err

\* new M3U8Parser({ playlist }): an empty playlist is not parsed.
Constructor(playlist) ==
  /\ op = "new"
  /\ op' = "constructor"
  /\ arg' = playlist
  /\ ops' = ops + 1
  /\ IF playlist # <<>>
     THEN rawPlaylist' = playlist /\ ParseStep(playlist)
     ELSE UNCHANGED <<rawPlaylist, items, header, groups, err>>
  /\ UNCHANGED <<filteredMap, ret, asked>>

(***************************************************************************)
(* parser.ts: the queries and the updates.                                 *)
(***************************************************************************)
\* getPlaylist()
getPlaylist(hdr, its, raw) == [header |-> hdr, items |-> MapValues(its), raw |-> raw]

\* `${x}` for the header's raw, which is undefined until a header is parsed.
TemplateString(x) == IF x = undefined THEN <<"u","n","d","e","f","i","n","e","d">> ELSE x

\* write() on an instance with header hdr and entries its.
write(hdr, its) ==
  LET playlist == getPlaylist(hdr, its, <<>>)
  IN  TemplateString(playlist.header.raw) \o <<"\n">>
        \o join([n \in DOMAIN playlist.items |-> playlist.items[n].raw], <<"\n">>)

\* A match that compares the title and the group as they are written.
getPlaylistItemsCaseSensitive(its, group) ==
  LET Matches(item) == startsWith(item.group.title, group)
  IN  SelectSeq(MapValues(its), Matches)

\* getPlaylistItems(group) over the entries its.
getPlaylistItems(its, group) ==
  LET Matches(item) == startsWith(toLowerCase(item.group.title), toLowerCase(group))
  IN  SelectSeq(MapValues(its), Matches)

\* group.split("").join("-")
RECURSIVE Interleave(_, _)
Interleave(s, sep) ==
  IF Len(s) <= 1 THEN s ELSE <<Head(s)>> \o sep \o Interleave(Tail(s), sep)

\* getPlaylistByGroup(group): [ret, filteredMap] from the cache fm.
getPlaylistByGroup(fm, hdr, its, group) ==
  LET key == Interleave(group, <<"-">>)
  IN  IF key \in DOMAIN fm
      THEN [ret |-> fm[key], filteredMap |-> fm]
      ELSE LET playlist == [header |-> hdr, items |-> getPlaylistItems(its, group)]
           IN  [ret |-> playlist, filteredMap |-> (key :> playlist) @@ fm]

\* The reduce of getPlaylistsByGroups: the matches of each group, in turn.
RECURSIVE ReduceGroups(_, _)
ReduceGroups(its, grps) ==
  IF grps = <<>> THEN <<>>
  ELSE getPlaylistItems(its, Head(grps)) \o ReduceGroups(its, Tail(grps))

\* getPlaylistsByGroups(groups): [ret, filteredMap] from the cache fm.
getPlaylistsByGroups(fm, hdr, its, grps) ==
  LET key == join(grps, <<"-">>)
  IN  IF key \in DOMAIN fm
      THEN [ret |-> fm[key], filteredMap |-> fm]
      ELSE LET playlist == [header |-> hdr, items |-> ReduceGroups(its, grps)]
           IN  [ret |-> playlist, filteredMap |-> (key :> playlist) @@ fm]

\* An updatePlaylist that assigns this.items before the loop, so that the
\* entries validated before the failing one stay in the instance.
updatePlaylistInPlace(its, playlist) ==
  IF "items" \notin DOMAIN playlist THEN [items |-> <<>>, err |-> "none"]
  ELSE IF \E n \in DOMAIN playlist.items : ~ValidatorAccepts(playlist.items[n])
  THEN LET bad == CHOOSE n \in DOMAIN playlist.items :
                    /\ ~ValidatorAccepts(playlist.items[n])
                    /\ \A m \in 1..(n - 1) : ValidatorAccepts(playlist.items[m])
       IN  [items |-> [n \in 1..(bad - 1) |->
                         [k |-> n - 1, v |-> ValidatorParse(playlist.items[n])]],
            err |-> "ValidationFailure"]
  ELSE [items |-> [n \in DOMAIN playlist.items |->
                     [k |-> n - 1, v |-> ValidatorParse(playlist.items[n])]],
        err |-> "none"]

\* updatePlaylist(playlist): [items, err]; the validator throws at the first
\* entry it does not accept, before this.items is assigned.
updatePlaylist(its, playlist) ==
  IF "items" \notin DOMAIN playlist THEN [items |-> <<>>, err |-> "none"]
  ELSE IF \E n \in DOMAIN playlist.items : ~ValidatorAccepts(playlist.items[n])
  THEN [items |-> its, err |-> "ValidationFailure"]
  ELSE [items |-> [n \in DOMAIN playlist.items |->
                     [k |-> n - 1, v |-> ValidatorParse(playlist.items[n])]],
        err |-> "none"]

\* The groupsToFilter of filterPlaylist: for each filter in turn, the groups
\* that start with it.
RECURSIVE GroupsToFilter(_, _)
GroupsToFilter(grps, filters) ==
  IF filters = <<>> THEN <<>>
  ELSE LET Starts(p) == startsWith(toLowerCase(p), toLowerCase(Head(filters)))
       IN  SelectSeq(grps, Starts) \o GroupsToFilter(grps, Tail(filters))

(***************************************************************************)
(* The operations as steps of the instance.                                *)
(***************************************************************************)
\* The instance exists: its constructor has returned.
Ready == op # "new" /\ ~(op = "constructor" /\ err # "none")

\* The history of the queries: the first answer to each is kept.
Remember(query, argument, answer) ==
  IF <<query, argument>> \in DOMAIN asked THEN asked
  ELSE (<<query, argument>> :> answer) @@ asked

GetPlaylistByGroup(group) ==
  /\ \E r \in {getPlaylistByGroup(filteredMap, header, items, group)} :
       /\ ret' = r.ret
       /\ filteredMap' = r.filteredMap
       /\ asked' = Remember("getPlaylistByGroup", group, r.ret)
  /\ op' = "getPlaylistByGroup"
  /\ arg' = group
  /\ err' = "none"
  /\ ops' = ops + 1
  /\ UNCHANGED <<rawPlaylist, items, header, groups>>

GetPlaylistsByGroups(grps) ==
  /\ \E r \in {getPlaylistsByGroups(filteredMap, header, items, grps)} :
       /\ ret' = r.ret
       /\ filteredMap' = r.filteredMap
       /\ asked' = Remember("getPlaylistsByGroups", grps, r.ret)
  /\ op' = "getPlaylistsByGroups"
  /\ arg' = grps
  /\ err' = "none"
  /\ ops' = ops + 1
  /\ UNCHANGED <<rawPlaylist, items, header, groups>>

\* An updateItems that also empties the cache of the queries.
UpdateItemsInvalidating(its) ==
  /\ items' = its
  /\ filteredMap' = <<>>
  /\ op' = "updateItems"
  /\ arg' = its
  /\ err' = "none"
  /\ ret' = undefined
  /\ ops' = ops + 1
  /\ UNCHANGED <<rawPlaylist, header, groups, asked>>

\* updateItems(items)
UpdateItems(its) ==
  /\ items' = its
  /\ op' = "updateItems"
  /\ arg' = its
  /\ err' = "none"
  /\ ret' = undefined
  /\ ops' = ops + 1
  /\ UNCHANGED <<rawPlaylist, filteredMap, header, groups, asked>>

UpdatePlaylist(playlist) ==
  /\ \E r \in {updatePlaylist(items, playlist)} :
       items' = r.items /\ err' = r.err
  /\ op' = "updatePlaylist"
  /\ arg' = playlist
  /\ ret' = undefined
  /\ ops' = ops + 1
  /\ UNCHANGED <<rawPlaylist, filteredMap, header, groups, asked>>

\* filterPlaylist(filters)
FilterPlaylist(filters) ==
  /\ \E q \in {getPlaylistsByGroups(filteredMap, header, items,
                                     GroupsToFilter(groups, filters))} :
       \E r \in {updatePlaylist(items, q.ret)} :
         filteredMap' = q.filteredMap /\ items' = r.items /\ err' = r.err
  /\ op' = "filterPlaylist"
  /\ arg' = filters
  /\ ret' = undefined
  /\ ops' = ops + 1
  /\ UNCHANGED <<rawPlaylist, header, groups, asked>>

\* filterPlaylist() without filters: groupsToFilter is undefined.
FilterPlaylistNoFilters ==
  /\ op' = "filterPlaylist()"
  /\ arg' = undefined
  /\ err' = "none"
  /\ ret' = undefined
  /\ ops' = ops + 1
  /\ UNCHANGED <<rawPlaylist, filteredMap, items, header, groups, asked>>

\* fetchPlaylist({ url }) whose response is ok and has the text playlist.
FetchPlaylist(playlist) ==
  /\ rawPlaylist' = playlist
  /\ ParseStep(playlist)
  /\ op' = "fetchPlaylist"
  /\ arg' = playlist
  /\ ret' = undefined
  /\ ops' = ops + 1
  /\ UNCHANGED <<filteredMap, asked>>

\* fetchPlaylist({ url }) whose response is not ok.
FetchPlaylistNotOk ==
  /\ op' = "fetchPlaylist"
  /\ arg' = undefined
  /\ err' = "Failed to fetch playlist"
  /\ ret' = undefined
  /\ ops' = ops + 1
  /\ UNCHANGED <<rawPlaylist, filteredMap, items, header, groups, asked>>

(***************************************************************************)
(* The arguments of the operations.                                        *)
(***************************************************************************)
\* The playlist of the repository's tests: a News and a Sports entry.
SharedPlaylist == TextOf(EXTM3U, <<LineNews, LineUrl, LineSports, LineUrl>>)

\* Two Sports entries, the second moved to the category Sp by #EXTGRP.
OverlapPlaylist ==
  TextOf(EXTM3U, <<LineSports, LineUrl, LineSports, LineGrp, LineUrlParams>>)

\* A Sports entry that is never given a URL.
OpenPlaylist == TextOf(EXTM3U, <<LineSports>>)

\* A header and a URL with no entry before it.
UrlOnlyPlaylist == TextOf(HeaderEpg, <<LineUrl>>)

\* No header line.
HeaderlessPlaylist == TextOf(LineNews, <<LineUrl>>)

PlaylistArgs == {SharedPlaylist, OverlapPlaylist, OpenPlaylist, UrlOnlyPlaylist,
                 HeaderlessPlaylist}

\* The entries of SharedPlaylist, and one with a number for its name.
SharedItems == parse(<<>>, <<>>, ParsedLines(SharedPlaylist)).items

NewsItem == MapGet(SharedItems, 0)

SportsItem == MapGet(SharedItems, 1)

InvalidItem == [SportsItem EXCEPT !.name = NotAString]

\* Maps for updateItems: the two entries with key 1 inserted before key 0,
\* two entries under the keys 0 and 2, and one holding the invalid entry.
ItemsArgs == {<<[k |-> 1, v |-> SportsItem], [k |-> 0, v |-> NewsItem]>>,
              <<[k |-> 0, v |-> SportsItem], [k |-> 2, v |-> NewsItem]>>,
              <<[k |-> 0, v |-> InvalidItem]>>}

\* Playlists for updatePlaylist.
UpdateArgs == {[header |-> [attrs |-> <<>>, raw |-> EXTM3U], items |-> <<NewsItem>>],
               [header |-> [attrs |-> <<>>, raw |-> EXTM3U],
                items |-> <<SportsItem, InvalidItem>>],
               [header |-> [attrs |-> <<>>, raw |-> EXTM3U]]}

sports == <<"s","p","o","r","t","s">>

Sp == <<"S","p">>

ports == <<"p","o","r","t","s">>

\* Groups for getPlaylistByGroup.
GroupArgs == {sports, Sp, ports}

\* Groups for getPlaylistsByGroups.
GroupsArgs == {<<sports>>,
               <<<<"p">>, <<"o">>, <<"r">>, <<"t">>, <<"s">>>>,
               <<<<"N","e">>, sports>>}

\* Filters for filterPlaylist.
FilterArgs == {<<sports>>, <<<<"n","e">>>>, <<<<"s">>, Sp>>, <<ports>>}

\* The operations called on one instance, the constructor among them.
MaxOps == 4

CanCall == Ready /\ ops < MaxOps

Construct ==
  op = "new" /\ \E playlist \in PlaylistArgs \cup {<<>>} : Constructor(playlist)

Fetch == CanCall /\ \E playlist \in PlaylistArgs : FetchPlaylist(playlist)

FetchNotOk == CanCall /\ FetchPlaylistNotOk

QueryGroup == CanCall /\ \E group \in GroupArgs : GetPlaylistByGroup(group)

QueryGroups == CanCall /\ \E grps \in GroupsArgs : GetPlaylistsByGroups(grps)

ReplaceItems == CanCall /\ \E its \in ItemsArgs : UpdateItems(its)

ReplacePlaylist == CanCall /\ \E playlist \in UpdateArgs : UpdatePlaylist(playlist)

Filter == CanCall /\ \E filters \in FilterArgs : FilterPlaylist(filters)

FilterNone == CanCall /\ FilterPlaylistNoFilters

Next ==
  \/ Construct
  \/ Fetch
  \/ FetchNotOk
  \/ QueryGroup
  \/ QueryGroups
  \/ ReplaceItems
  \/ ReplacePlaylist
  \/ Filter
  \/ FilterNone

Spec == Init /\ [][Next]_vars

(***************************************************************************)
(* The parser alone: one instance constructed from any of the texts.        *)
(***************************************************************************)
ConstructFromText ==
  op = "new" /\ \E playlist \in Texts(MaxLines) : Constructor(playlist)

NextParse == ConstructFromText

SpecParse == Init /\ [][NextParse]_vars

(***************************************************************************)
(* An instance on which, once constructed, only filterPlaylist is called.  *)
(***************************************************************************)
NextFilter ==
  \/ Construct
  \/ Filter
  \/ FilterNone

SpecFilter == Init /\ [][NextFilter]_vars

(***************************************************************************)
(* An instance on which, once constructed, only the queries are called:    *)
(* its entry map is never replaced.                                        *)
(***************************************************************************)
NextQuery ==
  \/ Construct
  \/ QueryGroup
  \/ QueryGroups

SpecQuery == Init /\ [][NextQuery]_vars

(***************************************************************************)
(* The playlist format, as the properties below read it: the kind of each  *)
(* line of a text, and the texts made of a header and complete entries.    *)
(***************************************************************************)
TextLines(text) == split(text, "\n")

IsMetadataLine(l) == startsWith(trim(l), EXTINF)

IsOptionLine(l) == startsWith(trim(l), EXTVLCOPT)

IsCategoryLine(l) == startsWith(trim(l), EXTGRP)

IsLocatorLine(l) ==
  /\ trim(l) # <<>>
  /\ ~IsMetadataLine(l) /\ ~IsOptionLine(l) /\ ~IsCategoryLine(l)

\* A header line, then one or more entries: a metadata line, any number of
\* option and category lines, a locator line.
WellFormed(text) ==
  LET ls == TextLines(text)
  IN  /\ Len(ls) >= 3
      /\ startsWith(ls[1], EXTM3U)
      /\ IsMetadataLine(ls[2])
      /\ IsLocatorLine(ls[Len(ls)])
      /\ \A n \in 2..Len(ls) :
           \/ IsMetadataLine(ls[n]) \/ IsOptionLine(ls[n])
           \/ IsCategoryLine(ls[n]) \/ IsLocatorLine(ls[n])
      /\ \A n \in 3..Len(ls) : IsMetadataLine(ls[n]) <=> IsLocatorLine(ls[n - 1])

\* The parser was constructed from a text and its constructor returned.
Constructed == op = "constructor" /\ rawPlaylist # <<>> /\ err = "none"

(***************************************************************************)
(* C1.  Round trip: write() on a parser freshly constructed from a         *)
(* well-formed text (a header line, then entries of one metadata line, any *)
(* number of option and category lines, and one locator line) returns      *)
(* exactly that text.                                                      *)
(***************************************************************************)
C1_RoundTrip ==
  (op = "constructor" /\ WellFormed(rawPlaylist))
    => (err = "none" /\ write(header, items) = rawPlaylist)

\* The entries without option or category lines do come back as written.
C1_PlainRoundTrip ==
  /\ Constructed
  /\ WellFormed(rawPlaylist)
  /\ Len(TextLines(rawPlaylist)) = 5
  /\ write(header, items) = rawPlaylist

(***************************************************************************)
(* C5.  At every step of a parse the raw of each entry is the lines folded *)
(* into it so far (its metadata line, then each option, category, blank    *)
(* and locator line applied to it), verbatim, in order, joined by          *)
(* newlines.                                                               *)
(***************************************************************************)
RawIsFoldedLines(st) ==
  \A slot \in MapKeys(st.items) :
    MapGet(st.items, slot).raw = join(MapGet(st.folded, slot), <<"\n">>)

C5_RawIsFoldedLines ==
  (op = "constructor" /\ rawPlaylist # <<>>
     /\ startsWith(rawPlaylist, EXTM3U))
    => LET lines == ParsedLines(rawPlaylist)
       IN  \A n \in 0..Len(lines) :
             RawIsFoldedLines(ParseFrom(<<>>, <<>>, lines, n))

(***************************************************************************)
(* C6.  Parse/serialize idempotence: for a text with a valid header, a     *)
(* fresh parse of what write() returns after a fresh parse of the text     *)
(* gives the same entry map: same keys, same fields, sequence_index and    *)
(* raw included.                                                           *)
(***************************************************************************)
C6_Idempotent ==
  Constructed
    => parse(<<>>, <<>>, ParsedLines(write(header, items))).items = items

(***************************************************************************)
(* C7.  A metadata line immediately followed by a locator line parses to   *)
(* exactly one entry: the k-th such pair (k from 0) is stored under key k, *)
(* its sequence_index is the metadata line's 0-based line number plus 1,   *)
(* its URL is the trimmed locator line up to the first pipe, its category  *)
(* title and id are the metadata line's group-title and tvg-id, and its    *)
(* raw is the two lines joined by a newline.                               *)
(***************************************************************************)
\* ls[n] is a metadata line and ls[n + 1] a locator line.
IsPair(ls, n) ==
  n + 1 <= Len(ls) /\ IsMetadataLine(ls[n]) /\ IsLocatorLine(ls[n + 1])

\* The locator line, trimmed, up to its first pipe.
UpToFirstPipe(l) ==
  LET t == trim(l)
      pipes == {q \in DOMAIN t : t[q] = "|"}
  IN  IF pipes = {} THEN t
      ELSE SubSeq(t, 1, (CHOOSE q \in pipes : \A r \in pipes : q <= r) - 1)

\* What the metadata lines of the texts say.
GroupTitleOf(l) ==
  IF l = LineNews THEN <<"N","e","w","s">>
  ELSE IF l = LineSports THEN <<"S","p","o","r","t","s">>
  ELSE <<>>

TvgIdOf(l) == IF l = LineNews THEN <<"A","B","C">> ELSE <<>>

\* The entry under key is the one the pair at ls[n], ls[n + 1] describes,
\* and no other entry comes from that metadata line.
PairStoredUnder(ls, n, key) ==
  /\ MapHas(items, key)
  /\ LET e == MapGet(items, key)
     IN  /\ e.index = (n - 1) + 1
         /\ e.url = UpToFirstPipe(ls[n + 1])
         /\ e.group.title = GroupTitleOf(ls[n])
         /\ e.tvg.id = TvgIdOf(ls[n])
         /\ e.raw = ls[n] \o <<"\n">> \o ls[n + 1]
  /\ \A other \in MapKeys(items) :
       MapGet(items, other).index = n => other = key

\* The pairs before line n.
PairsBefore(ls, n) == Cardinality({m \in 2..(n - 1) : IsPair(ls, m)})

Completes(ls, m) ==
  /\ IsLocatorLine(ls[m])
  /\ \E j \in 2..(m - 1) :
       IsMetadataLine(ls[j]) /\ \A q \in (j + 1)..(m - 1) : ~IsLocatorLine(ls[q])

\* The entries completed before line n.
CompletedBefore(ls, n) == Cardinality({m \in 2..(n - 1) : Completes(ls, m)})

MatchesSome(e, filters) ==
  \E n \in DOMAIN filters :
    startsWith(toLowerCase(e.group.title), toLowerCase(filters[n]))

\* The ways of listing the members of S, each once.
Orderings(S) ==
  {o \in [1..Cardinality(S) -> S] : \A a, b \in DOMAIN o : a # b => o[a] # o[b]}

C2_FilteredWrite ==
  [][\A f \in FilterArgs :
       (Constructed /\ op' = "filterPlaylist" /\ arg' = f)
         => LET keep == {k \in MapKeys(items) : MatchesSome(MapGet(items, k), f)}
            IN  \E o \in Orderings(keep) :
                  write(header', items')
                    = header.raw \o <<"\n">>
                        \o join([n \in DOMAIN o |-> MapGet(items, o[n]).raw],
                                <<"\n">>)]_vars

(***************************************************************************)
(* C3.  When the first line of the text handed to parse does not start     *)
(* with #EXTM3U, parse fails with an error and the entry map, the header   *)
(* and the groups are what they were before, also when the parse is that   *)
(* of a fetchPlaylist on a populated instance.                             *)
(***************************************************************************)
C3_InvalidHeaderLeavesState ==
  [][(/\ op' \in {"constructor", "fetchPlaylist"}
      /\ arg' # undefined
      /\ arg' # <<>>
      /\ ~startsWith(TextLines(arg')[1], EXTM3U))
       => (/\ err' = "Playlist is not valid"
           /\ UNCHANGED <<items, header, groups>>)]_vars

\* A fetch of a text without header on an instance that holds entries.
C3_RejectedOnPopulated ==
  /\ op = "fetchPlaylist"
  /\ arg = HeaderlessPlaylist
  /\ err = "Playlist is not valid"
  /\ items # <<>>
  /\ groups # <<>>
  /\ header.raw = EXTM3U

(***************************************************************************)
(* C4.  On a freshly parsed instance getPlaylistByGroup(p) returns exactly *)
(* the entries whose lower-cased category title starts with lower-cased p, *)
(* in source order: the title "Sports" is returned for "sports" and "Sp",  *)
(* not for "ports".                                                        *)
(***************************************************************************)
PrefixMatch(e, p) == startsWith(toLowerCase(e.group.title), toLowerCase(p))

Entries(its) == {MapGet(its, k) : k \in MapKeys(its)}

C4_PrefixMatchInSourceOrder ==
  [][(op = "constructor" /\ op' = "getPlaylistByGroup")
       => LET r == ret'.items
              p == arg'
          IN  /\ \A n \in DOMAIN r : r[n] \in Entries(items) /\ PrefixMatch(r[n], p)
              /\ \A e \in Entries(items) : PrefixMatch(e, p) => e \in Range(r)
              /\ \A m, n \in DOMAIN r : m < n => r[m].index < r[n].index
              /\ \A e \in Entries(items) :
                   e.group.title = <<"S","p","o","r","t","s">>
                     => /\ p \in {sports, Sp} => e \in Range(r)
                        /\ p = ports => e \notin Range(r)]_vars

\* Two entries, of the categories Sports and Sp, returned for "Sp".
C4_TwoEntriesReturned ==
  /\ op = "getPlaylistByGroup"
  /\ ops = 2
  /\ arg = Sp
  /\ Len(ret.items) = 2
  /\ ret.items[1].group.title = <<"S","p","o","r","t","s">>
  /\ ret.items[2].group.title = Sp
  /\ ret.items[1].index < ret.items[2].index

(***************************************************************************)
(* C8.  A query (getPlaylistByGroup or getPlaylistsByGroups) repeated with *)
(* the same argument returns the result built the first time, without      *)
(* building it again, and replacing the entries does not invalidate the    *)
(* cache: after updateItems, updatePlaylist or filterPlaylist the repeated *)
(* query still returns the result built from the old entries.              *)
(***************************************************************************)
C8_RepeatedQueryIsCached ==
  [][(/\ op' \in {"getPlaylistByGroup", "getPlaylistsByGroups"}
      /\ <<op', arg'>> \in DOMAIN asked)
       => (/\ ret' = asked[<<op', arg'>>]
           /\ filteredMap' = filteredMap)]_vars

\* A repeated query answered with entries the instance no longer holds.
C8_StaleAnswer ==
  /\ op = "getPlaylistByGroup"
  /\ arg = sports
  /\ ret = asked[<<op, arg>>]
  /\ ret.items # <<>>
  /\ getPlaylistItems(items, arg) = <<>>

(***************************************************************************)
(* C9.  In every state reachable by the public operations (parse,          *)
(* updateItems, updatePlaylist, filterPlaylist) write() emits the header   *)
(* raw, a newline, and the raw blocks of the entries joined by newlines in *)
(* ascending order of their integer keys.                                  *)
(***************************************************************************)
Rendered(hdr, raws) == TemplateString(hdr.raw) \o <<"\n">> \o join(raws, <<"\n">>)

C9_WriteInAscendingKeyOrder ==
  LET keys == Ascending(MapKeys(items))
  IN  write(header, items)
        = Rendered(header, [n \in DOMAIN keys |-> MapGet(items, keys[n]).raw])

\* The keys are 0, 1, ... in the order of insertion.
Dense(m) == \A n \in DOMAIN m : m[n].k = n - 1

\* C9, amended: write() emits the header raw, a newline, and the raw blocks
\* joined by newlines in the order the entries were inserted into the map;
\* that is the ascending order of the keys 0, 1, ... as long as no
\* updateItems installs a map built otherwise.
C9_WriteInInsertionOrder ==
  /\ [](write(header, items)
          = Rendered(header, [n \in DOMAIN items |-> items[n].v.raw]))
  /\ [](Dense(items) => C9_WriteInAscendingKeyOrder)
  /\ [][(Dense(items) /\ op' # "updateItems") => Dense(items')]_vars

\* Entries written out of key order: key 1 was inserted before key 0.
C9_WrittenOutOfKeyOrder ==
  /\ items # <<>>
  /\ ~Dense(items)
  /\ ~C9_WriteInAscendingKeyOrder
  /\ write(header, items)
       = Rendered(header, [n \in DOMAIN items |-> items[n].v.raw])

(***************************************************************************)
(* C10.  Every entry that enters the entry map through a public operation  *)
(* (parse, updateItems, updatePlaylist, filterPlaylist) has been checked   *)
(* against the field-shape contract: in every reachable state every entry  *)
(* of the map satisfies it, a violating entry being rejected with an error *)
(* instead of stored.                                                      *)
(***************************************************************************)
C10_EntriesSatisfyContract ==
  \A k \in MapKeys(items) : ValidatorAccepts(MapGet(items, k))

\* updatePlaylist does reject the entry the validator does not accept.
C10_UpdatePlaylistRejects ==
  /\ op = "updatePlaylist"
  /\ err = "ValidationFailure"
  /\ C10_EntriesSatisfyContract

(***************************************************************************)
(* C11.  Filtering never fails: in every reachable state                   *)
(* getPlaylistByGroup, getPlaylistsByGroups and filterPlaylist complete    *)
(* without raising an error, and a requested prefix that matches no        *)
(* category title yields an empty set of entries.                          *)
(***************************************************************************)
\* No entry of its has a title that starts with p, letters without case.
MatchesNone(its, p) == \A e \in Entries(its) : ~PrefixMatch(e, p)

C11_FilteringNeverFails ==
  [][/\ op' \in {"getPlaylistByGroup", "getPlaylistsByGroups",
                 "filterPlaylist", "filterPlaylist()"}
          => err' = "none"
     /\ (op' = "getPlaylistByGroup" /\ MatchesNone(items, arg'))
          => ret'.items = <<>>
     /\ (op' = "getPlaylistsByGroups"
           /\ \A n \in DOMAIN arg' : MatchesNone(items, arg'[n]))
          => ret'.items = <<>>
     /\ (op' = "filterPlaylist"
           /\ \A n \in DOMAIN arg' : MatchesNone(items, arg'[n]))
          => items' = <<>>]_vars

(***************************************************************************)
(* C12.  An option line applied to an open entry merges its values into    *)
(* the entry's transport fields, a new value replacing the old one only    *)
(* when it is present on the line: a line carrying only http-referrer      *)
(* leaves the user-agent unchanged, a line carrying only http-user-agent   *)
(* leaves the referrer unchanged.                                          *)
(***************************************************************************)
\* The parse of the lines ls on a fresh instance, one step after the other:
\* element n + 1 is the parse after the first n lines.
RECURSIVE StepsUpTo(_, _)
StepsUpTo(ls, n) ==
  IF n = 0 THEN <<ParseFrom(<<>>, <<>>, <<>>, 0)>>
  ELSE LET upTo == StepsUpTo(ls, n - 1)
           prev == upTo[n]
       IN  Append(upTo, IF prev.err # "none" THEN prev
                        ELSE ParseLine(prev, parseLine(ls[n], n - 1)))

\* The steps of the parse of the lines ls: StepsOf(ls)[n] is the parse after
\* the first n lines (the header is line 1).
StepsOf(ls) ==
  LET upTo == StepsUpTo(ls, Len(ls))
  IN  [n \in 0..Len(ls) |-> upTo[n + 1]]

\* Line n is reached with an entry open in the current slot.
AppliedToOpenEntry(steps, n) ==
  /\ n \in 2..(Cardinality(DOMAIN steps) - 1)
  /\ steps[n - 1].err = "none"
  /\ MapHas(steps[n - 1].items, steps[n - 1].i)

\* The open entry before line n, and the entry of that slot after it.
OpenBefore(steps, n) == MapGet(steps[n - 1].items, steps[n - 1].i)

SameSlotAfter(steps, n) == MapGet(steps[n].items, steps[n - 1].i)

\* The parser was constructed from a text with a valid header.
ParsedFresh == op = "constructor" /\ startsWith(rawPlaylist, EXTM3U)

\* What the option lines of the texts carry.
CarriesReferrer(l) == trim(l) = LineOptReferrer

CarriesUserAgent(l) == trim(l) = LineOptUserAgent

C12_OptionLineMerges ==
  ParsedFresh
    => \A ls \in {TextLines(rawPlaylist)} : \A steps \in {StepsOf(ls)} :
         \A n \in 2..Len(ls) :
           (IsOptionLine(ls[n]) /\ AppliedToOpenEntry(steps, n))
             => /\ CarriesReferrer(ls[n])
                     => /\ SameSlotAfter(steps, n).http.referrer = <<"r">>
                        /\ SameSlotAfter(steps, n).http.userAgent
                             = OpenBefore(steps, n).http.userAgent
                /\ CarriesUserAgent(ls[n])
                     => /\ SameSlotAfter(steps, n).http.userAgent = <<"v">>
                        /\ SameSlotAfter(steps, n).http.referrer
                             = OpenBefore(steps, n).http.referrer

(***************************************************************************)
(* C13.  When a locator line finalizes an entry the URL and the transport  *)
(* overrides are merged into it: the user-agent and the referrer of the    *)
(* finalized entry are the values of the user-agent= and referer=          *)
(* parameters after the pipe when those are present, and otherwise the     *)
(* values the entry had from its metadata and option lines.                *)
(***************************************************************************)
\* The parameters after the pipe of the locator lines of the texts; <<>>
\* when the line has none.
UserAgentParameter(l) == IF l = LineUrlParams THEN <<"x">> ELSE <<>>

RefererParameter(l) == IF l = LineUrlParams THEN <<"y">> ELSE <<>>

\* The value v of a parameter if the line has it, the old value if not.
Overridden(old, v) == IF v # <<>> THEN v ELSE old

C13_LocatorLineMerges ==
  ParsedFresh
    => \A ls \in {TextLines(rawPlaylist)} : \A steps \in {StepsOf(ls)} :
         \A n \in 2..Len(ls) :
           (IsLocatorLine(ls[n]) /\ AppliedToOpenEntry(steps, n))
             => /\ SameSlotAfter(steps, n).url = UpToFirstPipe(ls[n])
                /\ SameSlotAfter(steps, n).http.userAgent
                     = Overridden(OpenBefore(steps, n).http.userAgent,
                                  UserAgentParameter(ls[n]))
                /\ SameSlotAfter(steps, n).http.referrer
                     = Overridden(OpenBefore(steps, n).http.referrer,
                                  RefererParameter(ls[n]))

(***************************************************************************)
(* C14.  A category line applied to an open entry overwrites the entry's   *)
(* category title with the value after the colon; when that value is       *)
(* empty the entry keeps the title it had.                                 *)
(***************************************************************************)
\* The value after the colon of the category lines of the texts.
CategoryValue(l) == IF trim(l) = LineGrp THEN Sp ELSE <<>>

C14_CategoryLineOverwrites ==
  ParsedFresh
    => \A ls \in {TextLines(rawPlaylist)} : \A steps \in {StepsOf(ls)} :
         \A n \in 2..Len(ls) :
           (IsCategoryLine(ls[n]) /\ AppliedToOpenEntry(steps, n))
             => SameSlotAfter(steps, n).group.title
                  = Overridden(OpenBefore(steps, n).group.title,
                               CategoryValue(ls[n]))

(***************************************************************************)
(* C15.  The groups are populated only when a locator line finalizes an    *)
(* entry: after the parse of any text on a fresh instance every title in   *)
(* the groups is the category title some finalized entry (one that was     *)
(* given a URL) had when it was finalized; the category of an entry that   *)
(* was never finalized does not appear.                                    *)
(***************************************************************************)
\* Line n is a locator line that finalizes an entry.
Finalizes(steps, ls, n) ==
  /\ AppliedToOpenEntry(steps, n)
  /\ IsLocatorLine(ls[n])
  /\ SameSlotAfter(steps, n).url # undefined

C15_GroupsOfFinalizedEntries ==
  ParsedFresh
    => \A ls \in {TextLines(rawPlaylist)} : \A steps \in {StepsOf(ls)} :
         \A t \in Range(groups) :
           \E n \in 2..Len(ls) :
             Finalizes(steps, ls, n) /\ SameSlotAfter(steps, n).group.title = t

(***************************************************************************)
(* C16.  A line that is empty after trimming never creates or finalizes an *)
(* entry: it leaves the cursor, the number of entries and every field of   *)
(* every entry other than raw unchanged, and it is appended to the raw of  *)
(* the entry in the current slot, so that the blank line is preserved in   *)
(* the serialized output.                                                  *)
(***************************************************************************)
IsBlankLine(l) == trim(l) = <<>>

\* Line n is a blank line that the parse reaches.
BlankLineReached(steps, ls, n) ==
  IsBlankLine(ls[n]) /\ steps[n - 1].err = "none"

\* Line n changes nothing but the raw of the entry in the current slot, to
\* which it is appended after a newline.
AppendedToOpenEntry(steps, ls, n) ==
  /\ AppliedToOpenEntry(steps, n)
  /\ steps[n].err = "none"
  /\ steps[n].i = steps[n - 1].i
  /\ MapKeys(steps[n].items) = MapKeys(steps[n - 1].items)
  /\ \A k \in MapKeys(steps[n].items) :
       MapGet(steps[n].items, k)
         = IF k = steps[n].i
           THEN [OpenBefore(steps, n) EXCEPT !.raw = @ \o <<"\n">> \o ls[n]]
           ELSE MapGet(steps[n - 1].items, k)

C16_BlankLineAppended ==
  ParsedFresh
    => \A ls \in {TextLines(rawPlaylist)} : \A steps \in {StepsOf(ls)} :
         \A n \in 2..Len(ls) :
           BlankLineReached(steps, ls, n) => AppendedToOpenEntry(steps, ls, n)

\* Line n leaves the entries, the cursor and the groups as they were.
Dropped(steps, n) ==
  /\ steps[n].err = "none"
  /\ steps[n].i = steps[n - 1].i
  /\ steps[n].items = steps[n - 1].items
  /\ steps[n].groups = steps[n - 1].groups

\* C16, amended: a blank line never creates or finalizes an entry and leaves
\* the cursor, the number of entries and every field other than raw as they
\* were; it is appended to the raw of the entry in the current slot when
\* that slot holds an entry, and it is dropped, so that write() does not
\* give it back, when the slot is empty (before the first metadata line and
\* after each locator line that finalized an entry).
C16_BlankLineAppendedOrDropped ==
  ParsedFresh
    => \A ls \in {TextLines(rawPlaylist)} : \A steps \in {StepsOf(ls)} :
         \A n \in 2..Len(ls) :
           BlankLineReached(steps, ls, n)
             => IF AppliedToOpenEntry(steps, n)
                THEN AppendedToOpenEntry(steps, ls, n)
                ELSE Dropped(steps, n)

\* One blank line inside an entry, kept, and one after it, dropped.
C16_BlankKeptAndBlankDropped ==
  /\ Constructed
  /\ rawPlaylist = TextOf(EXTM3U, <<LineNews, LineBlank, LineUrl, LineBlank>>)
  /\ MapKeys(items) = {0}
  /\ MapGet(items, 0).raw = join(<<LineNews, LineBlank, LineUrl>>, <<"\n">>)
  /\ write(header, items) # rawPlaylist

(***************************************************************************)
(* C17.  After the parse of any text with a valid header on a fresh        *)
(* instance the keys of the entries are exactly 0..n-1 in encounter order, *)
(* sequence_index strictly increases with the key, every entry with a key  *)
(* below the final cursor has a URL, and at most one entry, the one with   *)
(* the highest key, has none; a metadata line that arrives while the       *)
(* current slot is open replaces the open entry instead of adding one.     *)
(***************************************************************************)
HasUrl(e) == e.url # undefined

C17_KeysAndCursor ==
  Constructed
    => \A ls \in {TextLines(rawPlaylist)} : \A steps \in {StepsOf(ls)} :
         /\ Dense(items)
         /\ MapKeys(items) = 0..(Len(items) - 1)
         /\ \A j, k \in MapKeys(items) :
              j < k => MapGet(items, j).index < MapGet(items, k).index
         /\ steps[Len(ls)].items = items
         /\ \A k \in MapKeys(items) :
              /\ k < steps[Len(ls)].i => HasUrl(MapGet(items, k))
              /\ ~HasUrl(MapGet(items, k)) => k = Len(items) - 1
         /\ \A n \in 2..Len(ls) :
              (IsMetadataLine(ls[n]) /\ AppliedToOpenEntry(steps, n))
                => /\ MapKeys(steps[n].items) = MapKeys(steps[n - 1].items)
                   /\ steps[n].i = steps[n - 1].i
                   /\ SameSlotAfter(steps, n).index = n
                   /\ SameSlotAfter(steps, n).raw = ls[n]

\* An open entry replaced by a second metadata line, and a last entry left
\* without URL.
C17_ReplacedAndLeftOpen ==
  /\ Constructed
  /\ rawPlaylist = TextOf(EXTM3U, <<LineNews, LineSports, LineUrl, LineNews>>)
  /\ MapKeys(items) = {0, 1}
  /\ MapGet(items, 0).index = 3
  /\ HasUrl(MapGet(items, 0))
  /\ ~HasUrl(MapGet(items, 1))

(***************************************************************************)
(* C18.  The result of a parse depends only on the text parsed: after      *)
(* fetchPlaylist parses a text on an instance that holds entries from an   *)
(* earlier parse, the entries and the groups equal those of a fresh        *)
(* instance constructed from that text.                                    *)
(***************************************************************************)
C18_ParseDependsOnTextOnly ==
  [][(/\ op' = "fetchPlaylist"
      /\ arg' # undefined
      /\ err' = "none"
      /\ items # <<>>)
       => LET fresh == parse(<<>>, <<>>, ParsedLines(arg'))
          IN  items' = fresh.items /\ groups' = fresh.groups]_vars

(***************************************************************************)
(* C19.  filterPlaylist only narrows: for any sequence of filterPlaylist   *)
(* calls on one instance, every entry in the entry map after a call was in *)
(* the entry map immediately before that call, so that an entry removed by *)
(* one filter is never brought back by a later one.                        *)
(***************************************************************************)
C19_FilterOnlyNarrows ==
  [][op' \in {"filterPlaylist", "filterPlaylist()"}
       => Entries(items') \subseteq Entries(items)]_vars

(***************************************************************************)
(* C20.  While the entry map has not been replaced the cached queries are  *)
(* equivalent to uncached ones for category strings without the separator  *)
(* '-': every getPlaylistByGroup(g) and getPlaylistsByGroups(gs) returns   *)
(* the entries a fresh computation of that query would return; two         *)
(* different queries never share a cache key, a single-category and a      *)
(* multi-category query included.                                          *)
(***************************************************************************)
C20_CachedAsUncached ==
  [][/\ op' = "getPlaylistByGroup"
          => ret'.items = getPlaylistByGroup(<<>>, header, items, arg').ret.items
     /\ op' = "getPlaylistsByGroups"
          => ret'.items = getPlaylistsByGroups(<<>>, header, items, arg').ret.items]_vars

(***************************************************************************)
(* C21.  updatePlaylist is all-or-nothing: when any entry of the supplied  *)
(* playlist violates the field-shape contract, updatePlaylist raises the   *)
(* validation error and the entry map of the instance is exactly what it   *)
(* was before the call; when all entries are valid the entry map becomes   *)
(* those entries re-keyed 0..n-1 in the supplied order.                    *)
(***************************************************************************)
\* The entries a playlist supplies: none when it has no items.
Supplied(playlist) ==
  IF "items" \in DOMAIN playlist THEN playlist.items ELSE <<>>

\* The entries es keyed 0..n-1 in their order.
Rekeyed(es) ==
  IF es = <<>> THEN <<>> ELSE [n \in DOMAIN es |-> [k |-> n - 1, v |-> es[n]]]

C21_UpdatePlaylistAllOrNothing ==
  [][op' = "updatePlaylist"
       => IF \E n \in DOMAIN Supplied(arg') :
               ~ValidatorAccepts(Supplied(arg')[n])
          THEN err' = "ValidationFailure" /\ items' = items
          ELSE err' = "none" /\ items' = Rekeyed(Supplied(arg'))]_vars

\* A playlist whose second entry is rejected, supplied to an instance whose
\* map an earlier updatePlaylist had set to the News entry under key 0: the
\* map is still that one.
C21_RejectedAfterAccepted ==
  /\ op = "updatePlaylist"
  /\ err = "ValidationFailure"
  /\ Supplied(arg) = <<SportsItem, InvalidItem>>
  /\ ValidatorAccepts(Supplied(arg)[1])
  /\ items = Rekeyed(<<NewsItem>>)

=============================================================================
